---- MODULE Spec2Model ----
(***************************************************************************)
(* Model of propnet/core/models.py: the Model base class (constructor,     *)
(* evaluate, derived properties), EquationModel.plug_in and PyModel.       *)
(*                                                                         *)
(* Python values are records of one shape (PyVal).  A dict is a sequence   *)
(* of <<key, value>> pairs with distinct keys, in insertion order.  A      *)
(* float is an exact rational <<n, d>> in lowest terms.  The pint unit     *)
(* registry and the sympy solver are libraries outside the repository:     *)
(* pint is modelled by its conversion arithmetic, the solver by an oracle  *)
(* that the Evaluate action chooses.                                       *)
(***************************************************************************)
EXTENDS Integers, Sequences, FiniteSets, TLC

\* Largest raw magnitude a caller supplies.
MaxMag == 2

\* Largest number of entries in a caller-supplied mapping.
MaxLen == 2

----------------------------------------------------------------------------
\* Rational arithmetic (Python floats, kept exact)

RECURSIVE GCD(_, _)
GCD(a, b) == IF b = 0 THEN a ELSE GCD(b, a % b)

Rat(n, d) == LET g == GCD(n, d) IN <<n \div g, d \div g>>

RatAdd(x, y) == Rat(x[1] * y[2] + y[1] * x[2], x[2] * y[2])

RatMul(x, y) == Rat(x[1] * y[1], x[2] * y[2])

RatDiv(x, y) == Rat(x[1] * y[2], x[2] * y[1])

----------------------------------------------------------------------------
\* Python strings built by formatting, and the values of the program

\* A format argument is the set of names it renders: one name for a string,
\* the elements for a set of names.
Arg(name) == {name}

Str(text) == [fmt |-> text, args |-> <<>>]

Format(text, a) == [fmt |-> text, args |-> a]

\* len(s) > 0 for a formatted string: some literal text or some argument
StrNonEmpty(s) == s.fmt # "" \/ Len(s.args) > 0

NoStr == Str("")

PyVal(t, m, u, s, b) == [t |-> t, magnitude |-> m, units |-> u, s |-> s, b |-> b]

Num(m) == PyVal("num", m, "", NoStr, FALSE)

Quantity(m, u) == PyVal("qty", m, u, NoStr, FALSE)

PyBool(b) == PyVal("bool", <<0, 1>>, "", NoStr, b)

PyStr(s) == PyVal("str", <<0, 1>>, "", s, FALSE)

\* isinstance(value, ureg.Quantity)
IsQuantity(v) == v.t = "qty"

----------------------------------------------------------------------------
\* dict

EmptyDict == <<>>

Keys(d) == {d[i][1] : i \in DOMAIN d}

Has(d, k) == k \in Keys(d)

Index(d, k) == CHOOSE i \in DOMAIN d : d[i][1] = k

Get(d, k) == d[Index(d, k)][2]

\* d[k] = v: an existing key keeps its position
Put(d, k, v) ==
    IF Has(d, k) THEN [d EXCEPT ![Index(d, k)] = <<k, v>>]
    ELSE Append(d, <<k, v>>)

\* {k: v for ...} over a sequence of pairs: a repeated key keeps the last value
RECURSIVE DictComp(_)
DictComp(pairs) ==
    IF pairs = <<>> THEN EmptyDict
    ELSE LET n == Len(pairs)
         IN  Put(DictComp(SubSeq(pairs, 1, n - 1)), pairs[n][1], pairs[n][2])

\* An optional dict argument: None or a dict
None == [isNone |-> TRUE, items |-> <<>>]

Some(d) == [isNone |-> FALSE, items |-> d]

\* bool(x) for None or a dict
Truthy(x) == ~x.isNone /\ Len(x.items) > 0

----------------------------------------------------------------------------
\* pint: the units of the registry that the model uses

Units == {"m", "cm", "s"}

Dimension(u) == IF u = "s" THEN "time" ELSE "length"

\* size of one unit in the base unit of its dimension
Scale(u) == IF u = "cm" THEN <<1, 100>> ELSE <<1, 1>>

Compatible(u, v) == Dimension(u) = Dimension(v)

\* Quantity.to(unit), for compatible units
To(q, u) == Quantity(RatDiv(RatMul(q.magnitude, Scale(q.units)), Scale(u)), u)

----------------------------------------------------------------------------
\* Exceptions: class, whether the class derives from Exception, and str(e)

Exc(cls, derives, s) == [cls |-> cls, isException |-> derives, str |-> s]

NoExc == Exc("", FALSE, NoStr)

\* str(KeyError(k)) is repr(k)
KeyError(k) == Exc("KeyError", TRUE, Format("'{}'", <<Arg(k)>>))

DimensionalityError(u, v) ==
    Exc("DimensionalityError", TRUE,
        Format("Cannot convert from '{}' to '{}'", <<Arg(u), Arg(v)>>))

IndexError == Exc("IndexError", TRUE, Str("list index out of range"))

FloatTypeError == Exc("TypeError", TRUE, Str("can't convert expression to float"))

NoneTypeError ==
    Exc("TypeError", TRUE, Str("'NoneType' object does not support item assignment"))

AttributeError(cls, attr) ==
    Exc("AttributeError", TRUE,
        Format("'{}' object has no attribute '{}'", <<Arg(cls), Arg(attr)>>))

----------------------------------------------------------------------------
\* Outcome of a call: a returned dict, a returned None, or a raised exception

Returned(d) == [raised |-> FALSE, exc |-> NoExc, isDict |-> TRUE, d |-> d]

ReturnedNone == [raised |-> FALSE, exc |-> NoExc, isDict |-> FALSE, d |-> EmptyDict]

Raised(e) == [raised |-> TRUE, exc |-> e, isDict |-> FALSE, d |-> EmptyDict]

NotCalled == [raised |-> FALSE, exc |-> NoExc, isDict |-> FALSE, d |-> EmptyDict]

----------------------------------------------------------------------------
\* Model.__init__ and the subclasses' constructors

Range(seq) == {seq[i] : i \in DOMAIN seq}

\* self.symbol_map.get(symbol) or symbol
CanonicalOr(symbol_map, symbol) ==
    IF Has(symbol_map.items, symbol) /\ Get(symbol_map.items, symbol) # ""
    THEN Get(symbol_map.items, symbol)
    ELSE symbol

\* the dict comprehension that re-keys the unit map through the symbol map
RekeyUnitMap(symbol_map, unit_map) ==
    DictComp([i \in DOMAIN unit_map |->
                <<CanonicalOr(symbol_map, unit_map[i][1]), unit_map[i][2]>>])

Model__init__(cls, name, connections, symbol_map, unit_map, equations, plug_in) ==
    LET um == IF Truthy(unit_map) THEN unit_map.items ELSE EmptyDict
    IN  [cls         |-> cls,
         name        |-> name,
         connections |-> connections,
         symbol_map  |-> symbol_map,
         unit_map    |-> IF Truthy(symbol_map) /\ Len(um) > 0
                         THEN RekeyUnitMap(symbol_map, um)
                         ELSE um,
         equations   |-> equations,
         _plug_in    |-> plug_in]

\* an equation is held as the set of free symbols of its parsed expression
EquationModel__init__(name, equations, connections, symbol_map, unit_map) ==
    Model__init__("EquationModel", name, connections, symbol_map, unit_map,
                  equations, "")

\* PyModel takes no unit_map and passes none to Model.__init__
PyModel__init__(name, connections, plug_in, symbol_map) ==
    Model__init__("PyModel", name, connections, symbol_map, None, <<>>, plug_in)

----------------------------------------------------------------------------
\* Derived properties

\* names an attribute lookup on the instance finds: the attributes set by the
\* constructors, and the methods and properties of the classes
InstanceAttrs(self) ==
    {"name", "connections", "description", "categories", "references",
     "constraints", "symbol_map", "unit_map"}
      \cup (IF self.cls = "EquationModel" THEN {"equations"} ELSE {"_plug_in"})

ClassAttrs(self) ==
    {"plug_in", "evaluate", "input_sets", "output_sets", "all_inputs",
     "all_outputs", "all_symbols", "test", "validate_from_test_data"}
      \cup (IF self.cls = "EquationModel"
            THEN {"from_file", "from_preset", "as_dict", "from_dict", "to_json"}
            ELSE {})

HasAttr(self, attr) == attr \in InstanceAttrs(self) \cup ClassAttrs(self)

\* getattr for the attributes that hold a list of lists
GetAttr(self, attr) == self[attr]

\* list(chain.from_iterable(lists))
RECURSIVE Chain(_)
Chain(lists) ==
    IF lists = <<>> THEN <<>> ELSE Head(lists) \o Chain(Tail(lists))

input_sets(self) ==
    [i \in DOMAIN self.connections |-> Range(self.connections[i].inputs)]

output_sets(self) ==
    [i \in DOMAIN self.connections |-> Range(self.connections[i].outputs)]

all_inputs(self) ==
    IF HasAttr(self, "inputs")
    THEN Returned(Chain(GetAttr(self, "inputs")))
    ELSE Raised(AttributeError(self.cls, "inputs"))

all_outputs(self) ==
    IF HasAttr(self, "outputs")
    THEN Returned(Chain(GetAttr(self, "outputs")))
    ELSE Raised(AttributeError(self.cls, "outputs"))

all_symbols(self) ==
    LET i == all_inputs(self)
        o == all_outputs(self)
    IN  IF i.raised THEN i
        ELSE IF o.raised THEN o
        ELSE Returned(i.d \o o.d)

----------------------------------------------------------------------------
\* EquationModel.plug_in

\* A solved expression: a number, an expression that still holds symbols, or
\* the empty-set marker.  sp.nonlinsolve returns a list of 1-tuples of these.
Number(r) == [kind |-> "number", value |-> r]

Symbolic == [kind |-> "symbolic", value |-> <<0, 1>>]

EmptySet == [kind |-> "emptyset", value |-> <<0, 1>>]

\* union over the substituted equations of eqn.free_symbols
possible_outputs(self, symbol_value_dict) ==
    UNION {self.equations[i] \ Keys(symbol_value_dict) : i \in DOMAIN self.equations}

\* The loop over possible_outputs from position i.  env lists, in the order
\* the loop visits the set, each symbol with what sp.nonlinsolve returns for it.
RECURSIVE SolveFrom(_, _, _)
SolveFrom(env, i, outputs) ==
    IF i > Len(env) THEN Returned(outputs)
    ELSE LET possible_output == env[i][1]
             solutions == env[i][2]
         IN  IF Len(solutions) = 0 THEN Raised(IndexError)
             ELSE LET solution == solutions[1][1]
                  IN  IF solution.kind = "emptyset"
                      THEN SolveFrom(env, i + 1, outputs)
                      ELSE IF solution.kind = "symbolic"
                      THEN Raised(FloatTypeError)
                      ELSE SolveFrom(env, i + 1,
                                     Put(outputs, possible_output, Num(solution.value)))

\* the solver is asked about the free symbols of the substituted equations
AnswersFor(symbols, env) ==
    SelectSeq(env, LAMBDA answer : answer[1] \in symbols)

EquationModel_plug_in(self, symbol_value_dict, env) ==
    SolveFrom(AnswersFor(possible_outputs(self, symbol_value_dict), env),
              1, EmptyDict)

----------------------------------------------------------------------------
\* PyModel.plug_in: the callables a PyModel is built from

Callables == {"add", "fail", "fail_blank", "exit", "nothing", "empty"}

\* add:        lambda x: {"y": x["a"] + x["b"]}
\* fail:       raises ValueError("no value")
\* fail_blank: raises RuntimeError()
\* exit:       calls sys.exit(), which raises SystemExit
\* nothing:    returns None
\* empty:      returns {}
Call(f, x) ==
    CASE f = "add" ->
            IF ~Has(x, "a") THEN Raised(KeyError("a"))
            ELSE IF ~Has(x, "b") THEN Raised(KeyError("b"))
            ELSE Returned(<< <<"y", Num(RatAdd(Get(x, "a").magnitude,
                                               Get(x, "b").magnitude))>> >>)
      [] f = "fail" -> Raised(Exc("ValueError", TRUE, Str("no value")))
      [] f = "fail_blank" -> Raised(Exc("RuntimeError", TRUE, Str("")))
      [] f = "exit" -> Raised(Exc("SystemExit", FALSE, Str("")))
      [] f = "nothing" -> ReturnedNone
      [] f = "empty" -> Returned(EmptyDict)

PyModel_plug_in(self, symbol_value_dict) == Call(self._plug_in, symbol_value_dict)

plug_in(self, symbol_value_dict, env) ==
    IF self.cls = "EquationModel"
    THEN EquationModel_plug_in(self, symbol_value_dict, env)
    ELSE PyModel_plug_in(self, symbol_value_dict)

----------------------------------------------------------------------------
\* Model.evaluate, step by step

\* RemapSymbols had evaluate always worked on a copy of the caller's mapping
RemapIntoCopy(self, symbol_value_dict) ==
    IF Truthy(self.symbol_map)
    THEN LET missing == {i \in DOMAIN symbol_value_dict :
                            ~Has(self.symbol_map.items, symbol_value_dict[i][1])}
         IN  IF missing # {}
             THEN LET first == CHOOSE i \in missing : \A j \in missing : i <= j
                  IN  [raised |-> TRUE,
                       exc    |-> KeyError(symbol_value_dict[first][1]),
                       fresh  |-> TRUE,
                       d      |-> EmptyDict]
             ELSE [raised |-> FALSE,
                   exc    |-> NoExc,
                   fresh  |-> TRUE,
                   d      |-> DictComp([i \in DOMAIN symbol_value_dict |->
                                <<Get(self.symbol_map.items, symbol_value_dict[i][1]),
                                  symbol_value_dict[i][2]>>])]
    ELSE [raised |-> FALSE, exc |-> NoExc, fresh |-> TRUE, d |-> symbol_value_dict]

\* lines 106-108: the remapped dict is a new object; without a symbol map the
\* name keeps referring to the caller's object
RemapSymbols(self, symbol_value_dict) ==
    IF Truthy(self.symbol_map)
    THEN LET missing == {i \in DOMAIN symbol_value_dict :
                            ~Has(self.symbol_map.items, symbol_value_dict[i][1])}
         IN  IF missing # {}
             THEN LET first == CHOOSE i \in missing : \A j \in missing : i <= j
                  IN  [raised |-> TRUE,
                       exc    |-> KeyError(symbol_value_dict[first][1]),
                       fresh  |-> TRUE,
                       d      |-> EmptyDict]
             ELSE [raised |-> FALSE,
                   exc    |-> NoExc,
                   fresh  |-> TRUE,
                   d      |-> DictComp([i \in DOMAIN symbol_value_dict |->
                                <<Get(self.symbol_map.items, symbol_value_dict[i][1]),
                                  symbol_value_dict[i][2]>>])]
    ELSE [raised |-> FALSE, exc |-> NoExc, fresh |-> FALSE, d |-> symbol_value_dict]

\* lines 113-117, from entry i on: an entry is rewritten as soon as it is
\* visited, so a conversion error leaves the earlier entries stripped
RECURSIVE StripFrom(_, _, _)
StripFrom(self, d, i) ==
    IF i > Len(d) THEN [raised |-> FALSE, exc |-> NoExc, d |-> d]
    ELSE LET symbol == d[i][1]
             value == d[i][2]
         IN  IF ~IsQuantity(value) THEN StripFrom(self, d, i + 1)
             ELSE IF ~Has(self.unit_map, symbol)
             THEN StripFrom(self, Put(d, symbol, Num(value.magnitude)), i + 1)
             ELSE IF ~Compatible(value.units, Get(self.unit_map, symbol))
             THEN [raised |-> TRUE,
                   exc    |-> DimensionalityError(value.units,
                                                  Get(self.unit_map, symbol)),
                   d      |-> d]
             ELSE StripFrom(self,
                            Put(d, symbol,
                                Num(To(value, Get(self.unit_map, symbol)).magnitude)),
                            i + 1)

\* StripUnits without the conversion of lines 115-116
StripWithoutConversion(self, d) ==
    [raised |-> FALSE,
     exc    |-> NoExc,
     d      |-> [i \in DOMAIN d |->
                    IF IsQuantity(d[i][2]) THEN <<d[i][1], Num(d[i][2].magnitude)>>
                    ELSE d[i]]]

StripUnits(self, d) == StripFrom(self, d, 1)

\* AnyInputMatch with all() in place of any()
AllInputMatch(self, available_symbols) ==
    \A i \in DOMAIN input_sets(self) : input_sets(self)[i] = available_symbols

\* AnyInputMatch with <= in place of ==
SubsetInputMatch(self, available_symbols) ==
    \E i \in DOMAIN input_sets(self) : input_sets(self)[i] \subseteq available_symbols

\* lines 122-124: any(set(input_set) == available_symbols ...)
AnyInputMatch(self, available_symbols) ==
    \E i \in DOMAIN input_sets(self) : input_sets(self)[i] = available_symbols

\* lines 125-129
UnsupportedInputs(self, available_symbols) ==
    << <<"successful", PyBool(FALSE)>>,
       <<"message",
         PyStr(Format("The {} model cannot generate any outputs for these inputs: {}",
                      <<Arg(self.name), available_symbols>>))>> >>

\* Failure with the exception's class name in place of str(e)
FailureNamingClass(e) ==
    << <<"successful", PyBool(FALSE)>>, <<"message", PyStr(Str(e.cls))>> >>

\* lines 135-138
Failure(e) ==
    << <<"successful", PyBool(FALSE)>>, <<"message", PyStr(e.str)>> >>

\* lines 130-138: the result of the try statement, given what plug_in did.
\* A returned dict gets the key 'successful'; an exception that derives from
\* Exception (also the TypeError of assigning into None) becomes a failure
\* record; any other exception leaves evaluate.
Guarded(plug) ==
    IF plug.raised
    THEN IF plug.exc.isException THEN Returned(Failure(plug.exc)) ELSE Raised(plug.exc)
    ELSE IF ~plug.isDict THEN Returned(Failure(NoneTypeError))
    ELSE Returned(Put(plug.d, "successful", PyBool(TRUE)))

\* lines 141-145
AddUnits(self, out) ==
    LET missing == {i \in DOMAIN out :
                       out[i][1] # "successful" /\ ~Has(self.unit_map, out[i][1])}
    IN  IF missing # {}
        THEN LET first == CHOOSE i \in missing : \A j \in missing : i <= j
             IN  Raised(KeyError(out[first][1]))
        ELSE Returned([i \in DOMAIN out |->
                IF out[i][1] = "successful" THEN out[i]
                ELSE <<out[i][1],
                       Quantity(out[i][2].magnitude, Get(self.unit_map, out[i][1]))>>])

\* SelfAfterEvaluate had evaluate re-keyed the unit map as the constructor does
SelfRekeyedByEvaluate(self) ==
    [self EXCEPT !.unit_map =
        IF Truthy(self.symbol_map) /\ Len(self.unit_map) > 0
        THEN RekeyUnitMap(self.symbol_map, self.unit_map)
        ELSE self.unit_map]

\* evaluate assigns to no attribute of self
SelfAfterEvaluate(self) == self

\* The whole call.  ret is what the caller gets; caller is the caller's
\* mapping object afterwards; the other fields are evaluate's locals.
evaluate(self, symbol_value_dict, env) ==
    LET remap == RemapSymbols(self, symbol_value_dict)
        strip == StripUnits(self, remap.d)
        available_symbols == Keys(strip.d)
        plug == plug_in(self, strip.d, env)
        try == Guarded(plug)
        base == [ret |-> Raised(remap.exc), caller |-> symbol_value_dict,
                 remapped |-> FALSE, mapped |-> EmptyDict,
                 stripped |-> FALSE, available_symbols |-> {},
                 called |-> FALSE, arg |-> EmptyDict, plug |-> NotCalled]
    IN  IF remap.raised THEN base
        ELSE LET afterStrip ==
                     [base EXCEPT !.remapped = TRUE, !.mapped = remap.d,
                                  !.ret = Raised(strip.exc),
                                  !.caller = IF remap.fresh THEN symbol_value_dict
                                             ELSE strip.d]
             IN  IF strip.raised THEN afterStrip
                 ELSE LET afterMatch ==
                              [afterStrip EXCEPT
                                  !.stripped = TRUE,
                                  !.available_symbols = available_symbols,
                                  !.ret = Returned(UnsupportedInputs(self, available_symbols))]
                      IN  IF ~AnyInputMatch(self, available_symbols) THEN afterMatch
                          ELSE LET afterPlug ==
                                       [afterMatch EXCEPT !.called = TRUE,
                                                          !.arg = strip.d,
                                                          !.plug = plug,
                                                          !.ret = try]
                               IN  IF try.raised \/ plug.raised \/ ~plug.isDict
                                   THEN afterPlug
                                   ELSE [afterPlug EXCEPT !.ret = AddUnits(self, try.d)]

----------------------------------------------------------------------------
\* The models that are constructed and the calls that are made

Conn(i, o) == [inputs |-> i, outputs |-> o]

ConnectionSets ==
    { << Conn(<<"a">>, <<"b", "y">>) >>,
      << Conn(<<"a", "b">>, <<"y">>), Conn(<<"a">>, <<"b", "y">>) >> }

SymbolMaps ==
    { None,
      Some(EmptyDict),
      Some(<< <<"a", "b">>, <<"b", "a">> >>),
      Some(<< <<"p", "a">>, <<"a", "a">> >>) }

UnitMaps ==
    { None,
      Some(<< <<"a", "m">>, <<"b", "s">>, <<"y", "m">> >>) }

Equations == << {"a", "b", "y"} >>

EquationModels ==
    { EquationModel__init__("eq", Equations, c, sm, um) :
        c \in ConnectionSets, sm \in SymbolMaps, um \in UnitMaps }

PyModels ==
    { PyModel__init__("py", c, f, sm) :
        c \in { << Conn(<<"a", "b">>, <<"y">>) >> },
        f \in Callables,
        sm \in { None, Some(<< <<"a", "b">>, <<"b", "a">> >>) } }

KeyNames == {"a", "b", "p"}

Values ==
    { Num(<<k, 1>>) : k \in 1..MaxMag } \cup { Quantity(<<1, 1>>, u) : u \in Units }

\* the mappings a caller supplies: up to MaxLen entries with distinct keys
Mappings ==
    UNION { { d \in [1..n -> KeyNames \X Values] :
                \A i, j \in 1..n : d[i][1] = d[j][1] => i = j } : n \in 0..MaxLen }

SolverOutcomes ==
    { <<>>,
      << <<Number(<<3, 1>>)>>, <<Number(<<5, 2>>)>> >>,
      << <<EmptySet>> >>,
      << <<Symbolic>> >> }

\* What the solver can answer during one call: nothing to ask unless an
\* EquationModel reaches plug_in; otherwise one answer per free symbol, the
\* symbols in any order.
Envs(self, symbol_value_dict) ==
    LET probe == evaluate(self, symbol_value_dict, <<>>)
        free == possible_outputs(self, probe.arg)
        n == Cardinality(free)
    IN  IF self.cls = "EquationModel" /\ probe.called
        THEN { e \in [1..n -> free \X SolverOutcomes] : {e[i][1] : i \in 1..n} = free }
        ELSE { <<>> }

----------------------------------------------------------------------------
\* State

VARIABLES
    self,               \* the Model instance
    constructed,        \* the instance as the constructor left it
    symbol_value_dict,  \* the caller's mapping object
    given,              \* the caller's mapping as it was when evaluate was called
    solver,             \* what the solver answered during the last evaluate
    op,                 \* the last operation called on the instance
    ret,                \* its outcome
    frame               \* the locals of the last evaluate call

vars == <<self, constructed, symbol_value_dict, given, solver, op, ret, frame>>

NoFrame ==
    [remapped |-> FALSE, mapped |-> EmptyDict, stripped |-> FALSE,
     available_symbols |-> {}, called |-> FALSE, arg |-> EmptyDict,
     plug |-> NotCalled]

Init ==
    /\ self \in EquationModels \cup PyModels
    /\ constructed = self
    /\ symbol_value_dict = EmptyDict
    /\ given = EmptyDict
    /\ solver = <<>>
    /\ op = "__init__"
    /\ ret = NotCalled
    /\ frame = NoFrame

\* The caller holds at most one mapping and one outcome at a time: it calls
\* when it holds nothing (Idle), may pass the same mapping object again, and
\* lets go of both before the next fresh call.
Idle == op \in {"__init__", "idle"}

\* self.evaluate(d) with the solver answering env
Run(d, env) ==
    LET e == evaluate(self, d, env)
    IN  /\ self' = SelfAfterEvaluate(self)
        /\ symbol_value_dict' = e.caller
        /\ given' = d
        /\ solver' = env
        /\ op' = "evaluate"
        /\ ret' = e.ret
        /\ frame' = [remapped |-> e.remapped, mapped |-> e.mapped,
                     stripped |-> e.stripped,
                     available_symbols |-> e.available_symbols,
                     called |-> e.called, arg |-> e.arg, plug |-> e.plug]
        /\ UNCHANGED constructed

\* the caller builds a mapping d and calls self.evaluate(d)
Evaluate ==
    /\ Idle
    /\ \E d \in Mappings : \E env \in Envs(self, d) : Run(d, env)

\* the caller passes the mapping object of its last call to evaluate again
Reevaluate ==
    /\ op = "evaluate"
    /\ \E env \in Envs(self, symbol_value_dict) : Run(symbol_value_dict, env)

\* the caller drops the outcome and the mapping
Release ==
    /\ ~Idle
    /\ op' = "idle"
    /\ ret' = NotCalled
    /\ symbol_value_dict' = EmptyDict
    /\ given' = EmptyDict
    /\ solver' = <<>>
    /\ frame' = NoFrame
    /\ UNCHANGED <<self, constructed>>

ReadProperty(name, outcome) ==
    /\ Idle
    /\ op' = name
    /\ ret' = outcome
    /\ UNCHANGED <<self, constructed, symbol_value_dict, given, solver, frame>>

ReadInputSets == ReadProperty("input_sets", Returned(input_sets(self)))

ReadOutputSets == ReadProperty("output_sets", Returned(output_sets(self)))

ReadAllInputs == ReadProperty("all_inputs", all_inputs(self))

ReadAllOutputs == ReadProperty("all_outputs", all_outputs(self))

ReadAllSymbols == ReadProperty("all_symbols", all_symbols(self))

Next ==
    \/ Evaluate
    \/ Reevaluate
    \/ Release
    \/ ReadInputSets
    \/ ReadOutputSets
    \/ ReadAllInputs
    \/ ReadAllOutputs
    \/ ReadAllSymbols

Spec == Init /\ [][Next]_vars

----------------------------------------------------------------------------
\* Vocabulary of the properties

Evaluated == op = "evaluate"

RawOnly(d) == \A i \in DOMAIN d : ~IsQuantity(d[i][2])

\* evaluate returned a dict whose 'successful' entry is True
Successful ==
    /\ Evaluated /\ ~ret.raised /\ ret.isDict
    /\ Has(ret.d, "successful") /\ Get(ret.d, "successful").b

\* evaluate returned a dict whose 'successful' entry is False
Unsuccessful ==
    /\ Evaluated /\ ~ret.raised /\ ret.isDict
    /\ Has(ret.d, "successful") /\ ~Get(ret.d, "successful").b

InputsOf(i) == Range(self.connections[i].inputs)

OutputsOf(i) == Range(self.connections[i].outputs)

PlugInReturnedDict == frame.called /\ ~frame.plug.raised /\ frame.plug.isDict

----------------------------------------------------------------------------
\* C1

\* C1 as stated: whenever evaluate is called with raw numbers whose key set is
\* exactly the inputs of a Connection c, it returns successful = True and the
\* key set of the result is exactly c.outputs plus 'successful'.
C1_ExactOutputsOfConnection ==
    (Evaluated /\ RawOnly(given)) =>
        \A i \in DOMAIN self.connections :
            Keys(given) = InputsOf(i) =>
                /\ Successful
                /\ Keys(ret.d) = OutputsOf(i) \cup {"successful"}

\* C1 amended: whenever evaluate is called with raw numbers and the key set
\* after Symbol Map remapping is exactly the inputs of a Connection, plug_in is
\* invoked; the result is successful exactly when plug_in returned a mapping
\* all of whose keys have a Unit Map entry, and its key set is then the keys
\* plug_in returned plus 'successful'.
C1_MatchedInputsReachPlugIn ==
    (/\ Evaluated /\ RawOnly(given) /\ frame.remapped
     /\ \E i \in DOMAIN self.connections : Keys(frame.mapped) = InputsOf(i))
    =>
        /\ frame.called
        /\ Successful <=>
              (/\ PlugInReturnedDict
               /\ \A k \in Keys(frame.plug.d) \ {"successful"} : Has(self.unit_map, k))
        /\ Successful => Keys(ret.d) = Keys(frame.plug.d) \cup {"successful"}

\* a successful call on a Connection's inputs whose result keys are not the
\* Connection's outputs
C1_Witness ==
    /\ Successful /\ RawOnly(given) /\ given # EmptyDict /\ frame.called
    /\ Keys(frame.plug.d) # {}
    /\ \E i \in DOMAIN self.connections :
          /\ Keys(frame.mapped) = InputsOf(i)
          /\ Keys(ret.d) # OutputsOf(i) \cup {"successful"}
          /\ Keys(ret.d) = Keys(frame.plug.d) \cup {"successful"}

----------------------------------------------------------------------------
\* C2

NoConnectionMatches ==
    \A i \in DOMAIN self.connections : Keys(frame.mapped) # InputsOf(i)

UnsupportedInputsReturned ==
    /\ Unsuccessful
    /\ Keys(ret.d) = {"successful", "message"}
    /\ StrNonEmpty(Get(ret.d, "message").s)

\* C2 as stated: whenever the remapped key set equals no Connection's input
\* set, evaluate returns successful = False with a non-empty message and no
\* outputs.
C2_UnmatchedAlwaysReported ==
    (Evaluated /\ frame.remapped /\ NoConnectionMatches) => UnsupportedInputsReturned

\* C2 amended: whenever the remapped key set equals no Connection's input set
\* and unit stripping completed (no unit-carrying input is incompatible with
\* its Unit Map unit), evaluate returns successful = False with a non-empty
\* message and no outputs, and plug_in is not invoked.
C2_UnmatchedReportedAfterStrip ==
    (Evaluated /\ frame.remapped /\ frame.stripped /\ NoConnectionMatches) =>
        /\ UnsupportedInputsReturned
        /\ ~frame.called

\* a strict superset of a declared input set was supplied and reported
C2_Witness ==
    /\ Evaluated /\ frame.stripped /\ NoConnectionMatches
    /\ \E i \in DOMAIN self.connections :
          InputsOf(i) \subseteq Keys(frame.mapped) /\ InputsOf(i) # Keys(frame.mapped)
    /\ UnsupportedInputsReturned

----------------------------------------------------------------------------
\* C3

FailureRecordOf(e) ==
    /\ Unsuccessful
    /\ Keys(ret.d) = {"successful", "message"}
    /\ Get(ret.d, "message").t = "str"
    /\ Get(ret.d, "message").s = e.str

\* C3 as stated: whenever plug_in raises an exception e, evaluate does not
\* raise and returns exactly {successful: False, message: str(e)}.
C3_AnyExceptionCaught ==
    (Evaluated /\ frame.called /\ frame.plug.raised) => FailureRecordOf(frame.plug.exc)

\* C3 amended: whenever plug_in raises an exception e that derives from
\* Exception, evaluate does not raise and returns exactly
\* {successful: False, message: str(e)}.
C3_ExceptionCaught ==
    (Evaluated /\ frame.called /\ frame.plug.raised /\ frame.plug.exc.isException)
    => FailureRecordOf(frame.plug.exc)

C3_Witness ==
    /\ Evaluated /\ frame.called /\ frame.plug.raised
    /\ frame.plug.exc.cls = "ValueError"
    /\ FailureRecordOf(frame.plug.exc)

----------------------------------------------------------------------------
\* C4

\* C4 as stated: whenever a PyModel's callable returned for a matched input
\* set, evaluate does not raise, returns successful = True and holds every
\* returned value as a quantity in Unit Map[key].
C4_PyModelWrapsOutputs ==
    (Evaluated /\ self.cls = "PyModel" /\ PlugInReturnedDict) =>
        /\ Successful
        /\ \A k \in Keys(frame.plug.d) :
              /\ Has(self.unit_map, k)
              /\ Has(ret.d, k)
              /\ Get(ret.d, k) =
                    Quantity(Get(frame.plug.d, k).magnitude, Get(self.unit_map, k))

----------------------------------------------------------------------------
\* C5

\* the entries of the remapped mapping that carry a unit compatible with, but
\* different from, the Unit Map's unit for their symbol
Convertible ==
    {i \in DOMAIN frame.mapped :
        /\ IsQuantity(frame.mapped[i][2])
        /\ Has(self.unit_map, frame.mapped[i][1])
        /\ Compatible(frame.mapped[i][2].units, Get(self.unit_map, frame.mapped[i][1]))
        /\ frame.mapped[i][2].units # Get(self.unit_map, frame.mapped[i][1])}

\* C5: whenever plug_in is invoked on a mapping with such an entry, the value
\* plug_in receives for it is the magnitude in the Unit Map unit, and every
\* output of a successful result is a quantity in exactly Unit Map[key].
C5_UnitRoundTrip ==
    (Evaluated /\ frame.called /\ Convertible # {}) =>
        /\ \A i \in Convertible :
              LET symbol == frame.mapped[i][1]
                  value == frame.mapped[i][2]
                  unit == Get(self.unit_map, symbol)
              IN  Get(frame.arg, symbol) =
                     Num(RatDiv(RatMul(value.magnitude, Scale(value.units)), Scale(unit)))
        /\ Successful =>
              \A k \in Keys(ret.d) \ {"successful"} :
                  /\ IsQuantity(Get(ret.d, k))
                  /\ Get(ret.d, k).units = Get(self.unit_map, k)

\* one centimetre supplied where the Unit Map says metres: plug_in received
\* 1/100, and the output is in the Unit Map's unit, not in centimetres
C5_Witness ==
    /\ Successful /\ frame.called
    /\ \E i \in Convertible :
          /\ frame.mapped[i][2] = Quantity(<<1, 1>>, "cm")
          /\ Get(frame.arg, frame.mapped[i][1]) = Num(<<1, 100>>)
    /\ \E k \in Keys(ret.d) \ {"successful"} : Get(ret.d, k).units = "m"

----------------------------------------------------------------------------
\* C6

\* the bare magnitude evaluate computes for a unit-carrying entry
BareMagnitude(symbol, value) ==
    IF Has(self.unit_map, symbol)
    THEN Num(To(value, Get(self.unit_map, symbol)).magnitude)
    ELSE Num(value.magnitude)

\* C6 as stated: with or without a Symbol Map, after evaluate returns, each
\* entry of the caller's mapping that held a unit-carrying value holds its
\* bare magnitude.
C6_CallerMappingStripped ==
    (Evaluated /\ ~ret.raised) =>
        \A i \in DOMAIN given :
            IsQuantity(given[i][2]) =>
                /\ i \in DOMAIN symbol_value_dict
                /\ symbol_value_dict[i][1] = given[i][1]
                /\ ~IsQuantity(symbol_value_dict[i][2])

\* C6 amended: after evaluate returns, when the model has no (or an empty)
\* Symbol Map each entry of the caller's mapping that held a unit-carrying
\* value holds its bare magnitude (converted to the Unit Map unit when the
\* symbol has one) and the other entries are unchanged; when the model has a
\* non-empty Symbol Map the caller's mapping is unchanged.
C6_StrippedInPlaceWithoutSymbolMap ==
    (Evaluated /\ ~ret.raised) =>
        IF Truthy(self.symbol_map)
        THEN symbol_value_dict = given
        ELSE /\ DOMAIN symbol_value_dict = DOMAIN given
             /\ \A i \in DOMAIN given :
                   /\ symbol_value_dict[i][1] = given[i][1]
                   /\ symbol_value_dict[i][2] =
                         IF IsQuantity(given[i][2])
                         THEN BareMagnitude(given[i][1], given[i][2])
                         ELSE given[i][2]

\* a model without Symbol Map returned and the caller's quantity in
\* centimetres has become the number 1/100
C6_Witness ==
    /\ Evaluated /\ ~ret.raised /\ ~Truthy(self.symbol_map)
    /\ \E i \in DOMAIN given :
          /\ given[i][2] = Quantity(<<1, 1>>, "cm")
          /\ symbol_value_dict[i][2] = Num(<<1, 100>>)

----------------------------------------------------------------------------
\* C7

\* C7 as stated: whenever the model has a Symbol Map and a supplied key has no
\* entry in it, evaluate keeps the key under its own name and goes on to
\* input-set matching without raising.
C7_IdentityFallback ==
    (/\ Evaluated /\ Truthy(self.symbol_map)
     /\ \E i \in DOMAIN given : ~Has(self.symbol_map.items, given[i][1]))
    =>
        /\ frame.remapped
        /\ \A i \in DOMAIN given :
              ~Has(self.symbol_map.items, given[i][1]) => Has(frame.mapped, given[i][1])
        /\ ~(ret.raised /\ ret.exc.cls = "KeyError" /\ ~frame.called)

----------------------------------------------------------------------------
\* C8

ConnectionInputs == Chain([i \in DOMAIN self.connections |-> self.connections[i].inputs])

ConnectionOutputs == Chain([i \in DOMAIN self.connections |-> self.connections[i].outputs])

\* C8 as stated: all_inputs, all_outputs and all_symbols return, without
\* raising, the concatenation across Connections of the inputs, of the
\* outputs, and of the inputs followed by the outputs.
C8_FlattenedProperties ==
    /\ op = "all_inputs" => (~ret.raised /\ ret.d = ConnectionInputs)
    /\ op = "all_outputs" => (~ret.raised /\ ret.d = ConnectionOutputs)
    /\ op = "all_symbols" => (~ret.raised /\ ret.d = ConnectionInputs \o ConnectionOutputs)

----------------------------------------------------------------------------
\* C9

\* C9: in every state the Connection Set, the Symbol Map and the Unit Map of
\* the instance are what the constructor left.
C9_ModelUnchangedByEvaluate ==
    /\ self.connections = constructed.connections
    /\ self.symbol_map = constructed.symbol_map
    /\ self.unit_map = constructed.unit_map

\* an evaluate call has succeeded on a model whose Unit Map the constructor
\* re-keyed and a second re-keying would change
C9_Witness ==
    /\ Successful
    /\ given # EmptyDict
    /\ Truthy(self.symbol_map)
    /\ self.unit_map # EmptyDict
    /\ RekeyUnitMap(self.symbol_map, self.unit_map) # self.unit_map
    /\ self.unit_map = constructed.unit_map

----------------------------------------------------------------------------
\* C10

NoSolution(i) == Len(solver[i][2]) = 0

NumericSolution(i) == Len(solver[i][2]) > 0 /\ solver[i][2][1][1].kind = "number"

\* C10 as stated: whenever EquationModel.plug_in runs and the solver's
\* solution set for a free symbol is empty (the other symbols having numeric
\* solutions), plug_in does not raise, that symbol is absent from the returned
\* mapping, and the other symbols are recorded.
C10_NoSolutionIsSkipped ==
    (/\ Evaluated /\ self.cls = "EquationModel" /\ frame.called
     /\ \E i \in DOMAIN solver : NoSolution(i)
     /\ \A i \in DOMAIN solver : NoSolution(i) \/ NumericSolution(i))
    =>
        /\ ~frame.plug.raised
        /\ frame.plug.isDict
        /\ \A i \in DOMAIN solver :
              Has(frame.plug.d, solver[i][1]) <=> NumericSolution(i)

====
